---- MODULE Spec2Model ----
(***************************************************************************)
(* Model of the agent execution wrapper (BaseAgent.execute) and of the     *)
(* pipeline orchestrator (ProductListingOrchestrator) of the multi-agent   *)
(* product listing system.                                                 *)
(*                                                                         *)
(* Granularity: one action per stretch of code between two suspension      *)
(* points of the asyncio tasks (await of the core operation, await of the  *)
(* backoff sleep, await of the shutdown poll), split further at the call   *)
(* boundaries wrapper <-> orchestrator.  A cancellation (pipeline          *)
(* deadline) is delivered only at a suspension point.                      *)
(*                                                                         *)
(* Time: the durations of core operations are not known to the program,    *)
(* so the attempt timeout and the pipeline deadline are events that may    *)
(* occur whenever the task they govern is suspended; backoff delays are    *)
(* recorded as the values passed to asyncio.sleep; every asyncio.sleep(1)  *)
(* of shutdown() advances the clock that shutdown() reads by one second.   *)
(***************************************************************************)
EXTENDS Integers, Sequences, FiniteSets, TLC

(* ---------------------------------------------------------------------- *)
(* Bounds                                                                  *)
(* ---------------------------------------------------------------------- *)
\* largest max_retries of an agent that is invoked directly (WrapperSpec)
MaxWrapperRetries == 5
\* largest max_retries of an agent configured in an orchestrator (Spec)
MaxRetries == 1

\* identifiers of the runs / invocations (pipeline_id)
Runs == {1, 2}

(* ---------------------------------------------------------------------- *)
(* Data model (models/data_models.py)                                      *)
(* ---------------------------------------------------------------------- *)
\* AgentType members that name a pipeline stage, by their stage number
Stages == {1, 2, 3}

\* StageStatus
StageStatus == {"pending", "in_progress", "completed", "failed", "skipped"}

\* the empty dict {}
EmptyDict == [k \in {} |-> ""]

\* a merge in which the left operand keeps its keys
Merge_FirstWins(a, b) ==
  [k \in (DOMAIN a) \cup (DOMAIN b) |-> IF k \in DOMAIN a THEN a[k] ELSE b[k]]

\* {**a, **b}: shallow merge, the right operand overwrites
Merge(a, b) == [k \in (DOMAIN a) \cup (DOMAIN b) |-> IF k \in DOMAIN b THEN b[k] ELSE a[k]]

\* AgentResult(agent_type, stage, status, data, error_message, retry_count)
AgentResult(k, st, d, msg, rc) ==
  [stage |-> k, status |-> st, data |-> d, error_message |-> msg, retry_count |-> rc]

\* value of the result slot while no wrapper invocation has returned
NoResult == AgentResult(0, "pending", EmptyDict, "None", 0)

\* ProductInput.dict() of the product inputs a caller submits
InputChoices ==
  { [product_title |-> "in_a", product_url |-> "in_a"],
    [product_title |-> "in_b", product_url |-> "in_b"] }

\* payloads the core operation of stage k may return
OutputChoices(k) ==
  CASE k = 1 -> { [title |-> "s1", detailed_description |-> "s1"],
                  [title |-> "s1", product_title |-> "s1"] }
    [] k = 2 -> { [image_url |-> "s2"], [title |-> "s2"] }
    [] OTHER -> { [title |-> "s3", body_html |-> "s3"] }

(* ---------------------------------------------------------------------- *)
(* State                                                                   *)
(* ---------------------------------------------------------------------- *)
VARIABLES
  agents,            \* self.agents: stage -> AgentConfig of the constructed agent
  pc,                \* position of each run / invocation
  caller,            \* who awaits the wrapper: "direct" or "orchestrator"
  stage,             \* stage whose agent is being invoked
  wrapper_input,     \* input_data argument of BaseAgent.execute
  retry_count,       \* local retry_count of BaseAgent.execute
  last_exception,    \* local last_exception of BaseAgent.execute (its str())
  result,            \* AgentResult returned by the last wrapper invocation
  attempts,          \* history: loop iterations started in this invocation
  sleeps,            \* history: wait_time of every asyncio.sleep of this invocation
  errors,            \* history: class of the exception and recorded error of every
                     \*          failed attempt of a direct invocation
  calls,             \* history: calls of _validate_input/_execute_core/_validate_output
                     \*          in a direct invocation
  input_data,        \* pipeline_result.input_data.dict()
  stage_inputs,      \* the inputs handed to the stages so far (stage2_input, ...)
  stage_results,     \* pipeline_result.stage_results
  final_status,      \* pipeline_result.final_status
  error_summary,     \* pipeline_result.error_summary
  typed,             \* stages whose typed sub-result is set on pipeline_result
  completed_at,      \* pipeline_result.completed_at is set
  active_pipelines,  \* self.active_pipelines (its keys)
  shutdown_pc,       \* position of the shutdown() coroutine
  waited,            \* seconds shutdown() has slept in its wait loop
  agent_registry,    \* AgentFactory._agent_registry: AgentType -> agent class
  created,           \* the last AgentFactory.create_agent call: arguments and outcome
  system_config,     \* the SystemConfig an orchestrator is constructed with
  pipeline_timeout,  \* self.pipeline_timeout
  agent_configs,     \* agent_configs of _initialize_agents after the overrides
  full_budget,       \* a run all of whose attempts take their whole timeout
  response           \* the dict ProductListingAPI returned for each run

vars == <<agents, pc, caller, stage, wrapper_input, retry_count, last_exception,
          result, attempts, sleeps, errors, calls, input_data, stage_inputs,
          stage_results, final_status, error_summary, typed, completed_at,
          active_pipelines, shutdown_pc, waited, agent_registry, created,
          system_config, pipeline_timeout, agent_configs, full_budget, response>>

apiVars == <<response>>

factoryVars == <<agent_registry, created>>

timingVars == <<system_config, pipeline_timeout, agent_configs, full_budget>>

runVars == <<input_data, stage_inputs, stage_results, final_status, error_summary,
             typed, completed_at>>

shutdownVars == <<shutdown_pc, waited>>

orchVars == <<runVars, active_pipelines, shutdownVars>>

wrapperVars == <<retry_count, last_exception, attempts, sleeps, errors, calls>>

(* ---------------------------------------------------------------------- *)
(* BaseAgent.execute                                                       *)
(* ---------------------------------------------------------------------- *)
\* str() of the exceptions the wrapper itself constructs
MsgInputValidation == "Input validation failed"
MsgOutputValidation == "Output validation failed"
MsgTimeout == "Agent execution timed out"
MsgUnexpected == "Unexpected error"
\* str() of an AgentException raised by the agent's own code
MsgAgent == "agent error"
MsgOther == "other exception"

\* outcomes of _validate_input / _validate_output
ValidateOutcomes == {"True", "False", "AgentException", "Exception"}
\* outcomes of awaiting _execute_core under asyncio.wait_for
CoreOutcomes == {"return", "TimeoutError", "AgentException", "Exception"}

\* a wrapper whose generic "except Exception" clause is missing
Handler_NoGenericClause(cls) ==
  CASE cls = "TimeoutError" -> "timeout"
    [] cls = "AgentException" -> "agent"
    [] OTHER -> "none"

\* a wrapper whose try statement has the AgentException clause only
Handler_OnlyAgentException(cls) ==
  CASE cls = "AgentException" -> "agent"
    [] OTHER -> "none"

\* which except clause of the wrapper's try statement takes an exception class
Handler(cls) ==
  CASE cls = "TimeoutError" -> "timeout"
    [] cls = "AgentException" -> "agent"
    [] cls = "Exception" -> "generic"
    [] OTHER -> "none"

\* last_exception as the taking clause sets it
Caught(cls, msg) ==
  CASE Handler(cls) = "timeout" -> MsgTimeout
    [] Handler(cls) = "agent" -> msg
    [] OTHER -> MsgUnexpected

\* a backoff without the 30 second cap
WaitTime_Uncapped(rc) == 2 ^ rc

\* min(2 ** retry_count, 30)
WaitTime(rc) == IF 2 ^ rc < 30 THEN 2 ^ rc ELSE 30

NoCalls == [validate_input |-> 0, execute_core |-> 0, validate_output |-> 0]

\* the histories errors and calls are kept for the invocations a caller
\* awaits directly; the invocations made by an orchestrator keep the
\* histories attempts and sleeps only
Observed(r) == caller[r] = "direct"

\* an input validation whose failure no except clause of the wrapper takes
InputExc_Fatal(o) == [cls |-> "BaseException", msg |-> MsgInputValidation]

\* the exception a validator outcome raises inside the try block
InputExc(o) ==
  CASE o = "False" -> [cls |-> "AgentException", msg |-> MsgInputValidation]
    [] o = "AgentException" -> [cls |-> "AgentException", msg |-> MsgAgent]
    [] OTHER -> [cls |-> "Exception", msg |-> MsgOther]

\* an output validation whose failure no except clause of the wrapper takes
OutputExc_Fatal(o) == [cls |-> "BaseException", msg |-> MsgOutputValidation]

\* the exception an output validator outcome raises inside the try block
OutputExc(o) ==
  CASE o = "False" -> [cls |-> "AgentException", msg |-> MsgOutputValidation]
    [] o = "AgentException" -> [cls |-> "AgentException", msg |-> MsgAgent]
    [] OTHER -> [cls |-> "Exception", msg |-> MsgOther]

CoreExc(o) ==
  CASE o = "TimeoutError" -> [cls |-> "TimeoutError", msg |-> MsgTimeout]
    [] o = "AgentException" -> [cls |-> "AgentException", msg |-> MsgAgent]
    [] OTHER -> [cls |-> "Exception", msg |-> MsgOther]

\* a wrapper that keeps the first exception instead of the last
NextLastException_KeepFirst(old, e) == IF old = "None" THEN e ELSE old

\* lines 217/224/227: last_exception = <the exception of this attempt>
NextLastException(old, e) == e

\* a wrapper that does not test the enabled flag
Disabled_Ignored(cfg) == FALSE

\* line 161: not self.config.enabled
Disabled(cfg) == ~cfg.enabled

\* a loop bound that is off by one
ShouldRetry_OffByOne(rc, maxr) == rc < maxr

\* lines 176/235: retry_count <= self.config.max_retries
ShouldRetry(rc, maxr) == rc <= maxr

\* a stage mapping whose lookup falls through to its default
StageNumber_Default(k) == 0

\* ProductListingOrchestrator._get_stage_number(agent_type)
StageNumber(k) == k

\* a success result that leaves retry_count at its default
Completed_NoRetryCount(k, d, rc) == AgentResult(k, "completed", d, "None", 0)

\* lines 206-214: the AgentResult of a successful attempt
Completed(k, d, rc) == AgentResult(k, "completed", d, "None", rc)

\* the wrapper hands rslt back to whoever awaits it
Return(r, rslt) ==
  /\ result' = [result EXCEPT ![r] = rslt]
  /\ pc' = [pc EXCEPT ![r] = "returned"]

\* an exception leaves BaseAgent.execute: _execute_stage converts it into a
\* Failed result, a direct caller sees it raised
Propagate(r, msg) ==
  IF caller[r] = "orchestrator"
  THEN Return(r, AgentResult(StageNumber(stage[r]), "failed", EmptyDict, msg, 0))
  ELSE /\ pc' = [pc EXCEPT ![r] = "raised"]
       /\ UNCHANGED result

\* lines 216-259: an exception raised in the try block of one attempt
AttemptFailed(r, exc) ==
  IF Handler(exc.cls) = "none"
  THEN /\ Propagate(r, exc.msg)
       /\ UNCHANGED <<retry_count, last_exception, sleeps, errors>>
  ELSE LET e == Caught(exc.cls, exc.msg)
           rc == retry_count[r] + 1
           le == NextLastException(last_exception[r], e)
       IN /\ last_exception' = [last_exception EXCEPT ![r] = le]
          /\ errors' = [errors EXCEPT ![r] = IF Observed(r)
                                              THEN Append(@, [cls |-> exc.cls, msg |-> e])
                                              ELSE @]
          /\ retry_count' = [retry_count EXCEPT ![r] = rc]
          /\ IF ShouldRetry(rc, agents[stage[r]].max_retries)
             THEN /\ sleeps' = [sleeps EXCEPT ![r] = Append(@, WaitTime(rc))]
                  /\ pc' = [pc EXCEPT ![r] = "sleep"]
                  /\ UNCHANGED result
             ELSE /\ Return(r, AgentResult(stage[r], "failed", EmptyDict, le, rc - 1))
                  /\ UNCHANGED sleeps

\* lines 161-174: entry of BaseAgent.execute for the agent of stage k
Execute(r, k, input) ==
  /\ stage' = [stage EXCEPT ![r] = k]
  /\ wrapper_input' = [wrapper_input EXCEPT ![r] = input]
  /\ attempts' = [attempts EXCEPT ![r] = 0]
  /\ sleeps' = [sleeps EXCEPT ![r] = <<>>]
  /\ errors' = [errors EXCEPT ![r] = <<>>]
  /\ calls' = [calls EXCEPT ![r] = NoCalls]
  /\ retry_count' = [retry_count EXCEPT ![r] = 0]
  /\ last_exception' = [last_exception EXCEPT ![r] = "None"]
  /\ IF Disabled(agents[k])
     THEN Return(r, AgentResult(k, "skipped", EmptyDict, "Agent is disabled", 0))
     ELSE /\ pc' = [pc EXCEPT ![r] = "attempt"]
          /\ UNCHANGED result

\* the input of a direct invocation; execute hands it to the validator and
\* to the core operation and has no branch that reads it
DirectInputs == { [product_title |-> "in_a", product_url |-> "in_a"] }

\* a caller awaits agent.execute(input) on a constructed agent
DirectInvoke(r) ==
  /\ pc[r] = "idle"
  /\ \E k \in DOMAIN agents, input \in DirectInputs :
       /\ caller' = [caller EXCEPT ![r] = "direct"]
       /\ Execute(r, k, input)
  /\ UNCHANGED <<apiVars, factoryVars, timingVars, agents, orchVars>>

\* lines 176-184: head of the while loop and input validation
Attempt(r) ==
  /\ pc[r] = "attempt"
  /\ ShouldRetry(retry_count[r], agents[stage[r]].max_retries)
  /\ attempts' = [attempts EXCEPT ![r] = @ + 1]
  /\ \E o \in ValidateOutcomes :
       IF o = "True"
       THEN /\ calls' = IF Observed(r)
                         THEN [calls EXCEPT ![r].validate_input = @ + 1,
                                            ![r].execute_core = @ + 1]
                         ELSE calls
            /\ pc' = [pc EXCEPT ![r] = "core"]
            /\ UNCHANGED <<retry_count, last_exception, sleeps, errors, result>>
       ELSE /\ calls' = IF Observed(r)
                         THEN [calls EXCEPT ![r].validate_input = @ + 1]
                         ELSE calls
            /\ AttemptFailed(r, InputExc(o))
  /\ UNCHANGED <<apiVars, factoryVars, timingVars, agents, caller, stage, wrapper_input, orchVars>>

\* lines 186-214: the awaited core operation finishes or is timed out, then
\* output validation
CoreDone(r) ==
  /\ pc[r] = "core"
  /\ \E o \in CoreOutcomes :
       IF o # "return"
       THEN /\ UNCHANGED calls
            /\ AttemptFailed(r, CoreExc(o))
       ELSE /\ calls' = IF Observed(r)
                         THEN [calls EXCEPT ![r].validate_output = @ + 1]
                         ELSE calls
            /\ \E d \in OutputChoices(stage[r]), v \in ValidateOutcomes :
                 IF v = "True"
                 THEN /\ Return(r, Completed(stage[r], d, retry_count[r]))
                      /\ UNCHANGED <<retry_count, last_exception, sleeps, errors>>
                 ELSE AttemptFailed(r, OutputExc(v))
  /\ UNCHANGED <<apiVars, factoryVars, timingVars, agents, caller, stage, wrapper_input, attempts, orchVars>>

\* line 241: asyncio.sleep(wait_time) returns
SleepDone(r) ==
  /\ pc[r] = "sleep"
  /\ pc' = [pc EXCEPT ![r] = "attempt"]
  /\ UNCHANGED <<apiVars, factoryVars, timingVars, agents, caller, stage, wrapper_input, result, wrapperVars, orchVars>>

(* ---------------------------------------------------------------------- *)
(* ProductListingOrchestrator                                              *)
(* ---------------------------------------------------------------------- *)
MsgNotAvailable == "Agent not available"
MsgPipelineTimeout == "Pipeline timeout"

\* lines 137-155: create the PipelineResult, register it, start sequencing
ExecutePipeline(r) ==
  /\ pc[r] = "idle"
  /\ \E input \in InputChoices :
       /\ input_data' = [input_data EXCEPT ![r] = input]
       /\ stage_inputs' = [stage_inputs EXCEPT ![r] = <<input>>]
  /\ final_status' = [final_status EXCEPT ![r] = "in_progress"]
  /\ active_pipelines' = active_pipelines \cup {r}
  /\ caller' = [caller EXCEPT ![r] = "orchestrator"]
  /\ stage' = [stage EXCEPT ![r] = 1]
  /\ pc' = [pc EXCEPT ![r] = "stage"]
  /\ UNCHANGED <<apiVars, factoryVars, timingVars, agents, wrapper_input, result, wrapperVars, stage_results,
                 error_summary, typed, completed_at, shutdownVars>>

\* an orchestrator that indexes self.agents without the membership test: the
\* KeyError is caught by the handler of _execute_stage
AbsentResult_KeyError(k) ==
  AgentResult(StageNumber(k), "failed", EmptyDict, "KeyError", 0)

\* lines 273-279: the result synthesized for a stage that has no agent
AbsentResult(k) ==
  AgentResult(StageNumber(k), "skipped", EmptyDict, MsgNotAvailable, 0)

\* lines 261-285: _execute_stage(agent_type, input_data) up to the first
\* suspension inside agent.execute
ExecuteStage(r) ==
  /\ pc[r] = "stage"
  /\ LET k == stage[r]
         input == stage_inputs[r][Len(stage_inputs[r])]
     IN IF k \notin DOMAIN agents
        THEN /\ Return(r, AbsentResult(k))
             /\ wrapper_input' = [wrapper_input EXCEPT ![r] = input]
             /\ attempts' = [attempts EXCEPT ![r] = 0]
             /\ sleeps' = [sleeps EXCEPT ![r] = <<>>]
             /\ errors' = [errors EXCEPT ![r] = <<>>]
             /\ calls' = [calls EXCEPT ![r] = NoCalls]
             /\ UNCHANGED <<stage, retry_count, last_exception>>
        ELSE Execute(r, k, input)
  /\ UNCHANGED <<apiVars, factoryVars, timingVars, agents, caller, orchVars>>

\* whether the orchestrator tries to build the typed sub-result of stage k
\* (lines 206, 230, 248)
TypedGuard(k, d) ==
  CASE k = 1 -> {"title", "detailed_description"} \subseteq DOMAIN d
    [] k = 2 -> "image_url" \in DOMAIN d
    [] OTHER -> TRUE

\* a sequencer that builds the typed sub-result whatever the stage's status
ParseTyped_AnyStatus(k, rslt) == TypedGuard(k, rslt.data)

\* lines 200-213, 224-237, 248-258: whether the constructor of the typed
\* sub-result of stage k is called with the data of rslt
ParseTyped(k, rslt) == rslt.status = "completed" /\ TypedGuard(k, rslt.data)

\* lines 200-204, 224-228: what a stage result contributes to later inputs
StageData(rslt) == IF rslt.status # "completed" THEN EmptyDict ELSE rslt.data

\* a stage-3 input built from the original input instead of stage2_input
NextInput_DropEarlier(orig, inputs, k, d) == Merge(orig, d)

\* lines 217, 241: the input of the stage after stage k
NextInput(orig, inputs, k, d) ==
  IF k = 1 THEN Merge(orig, d) ELSE Merge(inputs[k], d)

\* a sequencer that runs a stage again when its wrapper returned Failed
NextStage_RetryFailed(k, rslt) == IF rslt.status = "failed" THEN k ELSE k + 1

\* lines 193-246: the stages are awaited one after the other in straight-line
\* code; the stage after stage k is stage k + 1 whatever stage k returned
NextStage(k, rslt) == k + 1

\* a sequencer that records no entry for a Skipped stage
AppendResult_DropSkipped(results, rslt) ==
  IF rslt.status = "skipped" THEN results ELSE Append(results, rslt)

\* a sequencer that records only Completed results
AppendResult_OnlyCompleted(results, rslt) ==
  IF rslt.status = "completed" THEN Append(results, rslt) ELSE results

\* lines 198, 222, 246: pipeline_result.stage_results.append(stage_result)
AppendResult(results, rslt) == Append(results, rslt)

\* lines 198-246: the awaited _execute_stage returns; append its result, set
\* the typed sub-result, build the next stage's input
StageDone(r) ==
  /\ pc[r] = "returned"
  /\ caller[r] = "orchestrator"
  /\ LET k == stage[r]
         rslt == result[r]
         d == StageData(rslt)
     IN /\ stage_results' = [stage_results EXCEPT ![r] = AppendResult(@, rslt)]
        /\ IF ParseTyped(k, rslt)
           THEN \E parsed \in BOOLEAN :
                  typed' = [typed EXCEPT ![r] = IF parsed THEN @ \cup {k} ELSE @]
           ELSE UNCHANGED typed
        /\ IF k < 3
           THEN /\ stage_inputs' = [stage_inputs EXCEPT ![r] =
                                      Append(@, NextInput(input_data[r], @, k, d))]
                /\ stage' = [stage EXCEPT ![r] = NextStage(k, rslt)]
                /\ pc' = [pc EXCEPT ![r] = "stage"]
           ELSE /\ pc' = [pc EXCEPT ![r] = "sequenced"]
                /\ UNCHANGED <<stage_inputs, stage>>
  /\ UNCHANGED <<apiVars, factoryVars, timingVars, agents, caller, wrapper_input, result, wrapperVars, input_data,
                 final_status, error_summary, completed_at, active_pipelines,
                 shutdownVars>>

\* a status test that looks at the last stage only
FailedStages_LastOnly(results) ==
  {i \in {Len(results)} : i >= 1 /\ results[i].status = "failed"}

\* a status test that counts Skipped stages as failures
FailedStages_CountSkipped(results) ==
  {i \in 1..Len(results) : results[i].status \in {"failed", "skipped"}}

\* the indices of the Failed entries of a stage-result list
FailedStages(results) == {i \in 1..Len(results) : results[i].status = "failed"}

\* an error list that reports the first Failed stage only
ErrorMessages_FirstOnly(results, i) ==
  IF FailedStages(results) = {} THEN <<>>
  ELSE <<results[CHOOSE k \in FailedStages(results) :
                   \A j \in FailedStages(results) : k <= j].error_message>>

\* line 161: [r.error_message for r in failed_stages if r.error_message];
\* an error_message that is None or empty is left out
RECURSIVE ErrorMessages(_, _)
ErrorMessages(results, i) ==
  IF i > Len(results) THEN <<>>
  ELSE IF results[i].status = "failed" /\ results[i].error_message \notin {"None", ""}
       THEN <<results[i].error_message>> \o ErrorMessages(results, i + 1)
       ELSE ErrorMessages(results, i + 1)

\* a finally block that empties the table instead of deleting its own key
Finally_ClearAll(r) ==
  /\ completed_at' = [completed_at EXCEPT ![r] = TRUE]
  /\ active_pipelines' = {}
  /\ pc' = [pc EXCEPT ![r] = IF r \in active_pipelines THEN "done" ELSE "raised"]

\* lines 175-188: the finally block and the return
Finally(r) ==
  /\ completed_at' = [completed_at EXCEPT ![r] = TRUE]
  /\ IF r \in active_pipelines
     THEN /\ active_pipelines' = active_pipelines \ {r}
          /\ pc' = [pc EXCEPT ![r] = "done"]
     ELSE /\ pc' = [pc EXCEPT ![r] = "raised"]
          /\ UNCHANGED active_pipelines

\* lines 157-163 and 175-188: stage sequencing finished in time
Finalize(r) ==
  /\ pc[r] = "sequenced"
  /\ IF FailedStages(stage_results[r]) # {}
     THEN /\ final_status' = [final_status EXCEPT ![r] = "failed"]
          /\ error_summary' = [error_summary EXCEPT ![r] = ErrorMessages(stage_results[r], 1)]
     ELSE /\ final_status' = [final_status EXCEPT ![r] = "completed"]
          /\ UNCHANGED error_summary
  /\ Finally(r)
  /\ UNCHANGED <<apiVars, factoryVars, timingVars, agents, caller, stage, wrapper_input, result, wrapperVars,
                 input_data, stage_inputs, stage_results, typed, shutdownVars>>

\* a timeout handler that derives the status from the collected results
TimedOut_StatusFromStages(r) ==
  /\ final_status' = [final_status EXCEPT ![r] =
        IF FailedStages(stage_results[r]) # {} THEN "failed" ELSE "completed"]
  /\ error_summary' = [error_summary EXCEPT ![r] = ErrorMessages(stage_results[r], 1)]
  /\ Finally(r)

\* a deadline whose handler runs while the sequencing task goes on running
TimedOut_NoCancel(r) ==
  /\ final_status' = [final_status EXCEPT ![r] = "failed"]
  /\ error_summary' = [error_summary EXCEPT ![r] = <<MsgPipelineTimeout>>]
  /\ completed_at' = [completed_at EXCEPT ![r] = TRUE]
  /\ active_pipelines' = active_pipelines \ {r}
  /\ UNCHANGED pc

\* a timeout handler that records the message but leaves the status
TimedOut_StatusKept(r) ==
  /\ error_summary' = [error_summary EXCEPT ![r] = <<MsgPipelineTimeout>>]
  /\ UNCHANGED final_status
  /\ Finally(r)

\* lines 165-168: asyncio.wait_for raised TimeoutError
TimedOut(r) ==
  /\ final_status' = [final_status EXCEPT ![r] = "failed"]
  /\ error_summary' = [error_summary EXCEPT ![r] = <<MsgPipelineTimeout>>]
  /\ Finally(r)

\* a deadline that cannot interrupt a backoff sleep
PipelineTimeout_CoreOnly(r) ==
  /\ pc[r] = "core"
  /\ caller[r] = "orchestrator"
  /\ TimedOut(r)
  /\ UNCHANGED <<apiVars, factoryVars, timingVars, agents, caller, stage, wrapper_input, result,
                 wrapperVars, input_data, stage_inputs, stage_results, typed,
                 shutdownVars>>

\* line 152: the pipeline deadline fires; asyncio.wait_for cancels the
\* sequencing task, which is suspended in the core operation or in a backoff
\* sleep: CancelledError is raised there
PipelineTimeout(r) ==
  /\ pc[r] \in {"core", "sleep"}
  /\ caller[r] = "orchestrator"
  /\ IF Handler("CancelledError") = "none"
     THEN /\ TimedOut(r)
          /\ UNCHANGED <<result, retry_count, last_exception, sleeps, errors>>
     ELSE /\ AttemptFailed(r, [cls |-> "CancelledError", msg |-> MsgOther])
          /\ UNCHANGED <<final_status, error_summary, completed_at, active_pipelines>>
  /\ UNCHANGED <<apiVars, factoryVars, timingVars, agents, caller, stage, wrapper_input, attempts, calls, input_data,
                 stage_inputs, stage_results, typed, shutdownVars>>

\* str() of the entry the generic handler of execute_pipeline writes
MsgSequencing == "Unexpected error: sequencing"

\* a generic handler that adds its entry to the messages of the Failed stages
Unexpected_KeepStageErrors(r) ==
  /\ final_status' = [final_status EXCEPT ![r] = "failed"]
  /\ error_summary' = [error_summary EXCEPT ![r] =
                         Append(ErrorMessages(stage_results[r], 1), MsgSequencing)]
  /\ Finally(r)

\* lines 170-173 and 175-188: the handler "except Exception" of
\* execute_pipeline, then the finally block
Unexpected(r) ==
  /\ final_status' = [final_status EXCEPT ![r] = "failed"]
  /\ error_summary' = [error_summary EXCEPT ![r] = <<MsgSequencing>>]
  /\ Finally(r)

\* an exception is raised by the code of _execute_pipeline_stages that runs
\* after _execute_stage returned (lines 198-217, 222-241, 246-258, outside
\* the try blocks of the typed sub-results), before or after the append
UnexpectedError(r) ==
  /\ pc[r] = "returned"
  /\ caller[r] = "orchestrator"
  /\ \E appended \in BOOLEAN :
       stage_results' = [stage_results EXCEPT ![r] =
                           IF appended THEN AppendResult(@, result[r]) ELSE @]
  /\ Unexpected(r)
  /\ UNCHANGED <<apiVars, factoryVars, timingVars, agents, caller, stage, wrapper_input,
                 result, wrapperVars, input_data, stage_inputs, typed, shutdownVars>>

\* a response whose success flag asks for a Completed stage
FormatApiResponse_NeedsCompletedStage(status, results, errs, tset) ==
  [success |-> status = "completed" /\ \E i \in 1..Len(results) : results[i].status = "completed",
   stages_completed |-> Cardinality({i \in 1..Len(results) : results[i].status = "completed"}),
   total_stages |-> Len(results),
   errors |-> errs,
   typed |-> tset,
   returned |-> TRUE]

\* a response that counts every stage result as completed
FormatApiResponse_CountsAll(status, results, errs, tset) ==
  [success |-> status = "completed",
   stages_completed |-> Len(results),
   total_stages |-> Len(results),
   errors |-> errs,
   typed |-> tset,
   returned |-> TRUE]

\* lines 420-442: ProductListingAPI._format_api_response; typed holds the
\* stages whose typed sub-result is a key of the response
FormatApiResponse(status, results, errs, tset) ==
  [success |-> status = "completed",
   stages_completed |-> Cardinality({i \in 1..Len(results) : results[i].status = "completed"}),
   total_stages |-> Len(results),
   errors |-> errs,
   typed |-> tset,
   returned |-> TRUE]

\* lines 393-395, 415-417: execute_pipeline returned the run to
\* ProductListingAPI, which returns the formatted response
ApiReturn(r) ==
  /\ pc[r] = "done"
  /\ response' = [response EXCEPT ![r] =
                    FormatApiResponse(final_status[r], stage_results[r],
                                      error_summary[r], typed[r])]
  /\ pc' = [pc EXCEPT ![r] = "responded"]
  /\ UNCHANGED <<factoryVars, timingVars, agents, caller, stage, wrapper_input, result,
                 wrapperVars, orchVars>>

\* line 354: max_wait = 60  # seconds
max_wait == 60

\* a wait loop that does not look at the clock
WaitLoop_NoGracePeriod(active, elapsed) == active # {}

\* line 356: self.active_pipelines and (time.time() - start_time) < max_wait
WaitLoop(active, elapsed) == active # {} /\ elapsed < max_wait

\* lines 345-358: shutdown() is called; the loop condition is tested with no
\* time elapsed, and with active runs the first one-second sleep begins
Shutdown ==
  /\ shutdown_pc = "idle"
  /\ waited' = 0
  /\ IF WaitLoop(active_pipelines, 0)
     THEN /\ shutdown_pc' = "waiting"
          /\ UNCHANGED active_pipelines
     ELSE /\ active_pipelines' = {}
          /\ shutdown_pc' = "done"
  /\ UNCHANGED <<apiVars, factoryVars, timingVars, agents, pc, caller, stage, wrapper_input,
                 result, wrapperVars, runVars>>

\* lines 356-364: asyncio.sleep(1) returns, one more second has elapsed, and
\* the loop condition is tested again; when the loop ends the entries still
\* present are dropped
ShutdownPoll ==
  /\ shutdown_pc = "waiting"
  /\ waited' = waited + 1
  /\ IF WaitLoop(active_pipelines, waited + 1)
     THEN UNCHANGED <<shutdown_pc, active_pipelines>>
     ELSE /\ active_pipelines' = {}
          /\ shutdown_pc' = "done"
  /\ UNCHANGED <<apiVars, factoryVars, timingVars, agents, pc, caller, stage, wrapper_input,
                 result, wrapperVars, runVars>>

(* ---------------------------------------------------------------------- *)
(* AgentFactory and BaseAgent.__init__                                     *)
(* ---------------------------------------------------------------------- *)
\* AgentType; its member ORCHESTRATOR, which names no stage, is written 0
AgentType == Stages \cup {0}

\* the agent classes of the package that implement BaseAgent
AgentClasses == {"ProductDescriptionAgent", "EcommerceIntegrationAgent"}

\* _get_stage_number() of an agent class
ClassStage(cls) == IF cls = "ProductDescriptionAgent" THEN 1 ELSE 3

\* the empty registry of the class body: _agent_registry = {}
EmptyRegistry == [t \in {} |-> ""]

\* BaseAgent._validate_config: the check that raises first, "None" if none
ConfigError(cfg) ==
  CASE cfg.max_retries < 0 -> "max_retries cannot be negative"
    [] cfg.timeout < 30 -> "timeout must be at least 30 seconds"
    [] OTHER -> "None"

\* no AgentConfig, no agent
NoConfig == [enabled |-> FALSE, max_retries |-> 0, timeout |-> 0]
NoAgent == [class |-> "None", stage |-> 0, config |-> NoConfig]

\* value of created while create_agent has not been called
NoCreate ==
  [agent_type |-> 0, config |-> NoConfig, raised |-> "None", message |-> "None",
   agent |-> NoAgent]

\* a create_agent(t, cfg) call that raised AgentConfigurationException
CreateRaised(t, cfg, msg) ==
  [agent_type |-> t, config |-> cfg, raised |-> "AgentConfigurationException",
   message |-> msg, agent |-> NoAgent]

\* BaseAgent.__init__ of class cls with config cfg, called for type t
Construct(t, cls, cfg) ==
  IF ConfigError(cfg) # "None"
  THEN CreateRaised(t, cfg, ConfigError(cfg))
  ELSE [agent_type |-> t, config |-> cfg, raised |-> "None", message |-> "None",
        agent |-> [class |-> cls, stage |-> ClassStage(cls), config |-> cfg]]

MsgNotRegistered == "Agent type is not registered"

\* a factory that falls back to some registered class for an unknown type
CreateAgentOutcome_Fallback(registry, t, cfg) ==
  IF t \in DOMAIN registry THEN Construct(t, registry[t], cfg)
  ELSE IF DOMAIN registry = {} THEN CreateRaised(t, cfg, MsgNotRegistered)
  ELSE Construct(t, registry[CHOOSE u \in DOMAIN registry : TRUE], cfg)

\* AgentFactory.create_agent(agent_type, config)
CreateAgentOutcome(registry, t, cfg) ==
  IF t \notin DOMAIN registry
  THEN CreateRaised(t, cfg, MsgNotRegistered)
  ELSE Construct(t, registry[t], cfg)

\* AgentConfig objects handed to create_agent; a config whose fields were
\* assigned after its construction may hold values the model class rejects
FactoryConfigs == [enabled : BOOLEAN, max_retries : {-1, 0, 1}, timeout : {29, 30}]

\* AgentFactory.register_agent(agent_type, agent_class)
RegisterAgent ==
  /\ \E t \in AgentType, cls \in AgentClasses :
       agent_registry' = [u \in (DOMAIN agent_registry) \cup {t} |->
                            IF u = t THEN cls ELSE agent_registry[u]]
  /\ UNCHANGED <<apiVars, created, timingVars, agents, pc, caller, stage, wrapper_input,
                 result, wrapperVars, orchVars>>

\* AgentFactory.create_agent(agent_type, config) is called and returns or raises
CreateAgent ==
  /\ \E t \in AgentType, cfg \in FactoryConfigs :
       created' = CreateAgentOutcome(agent_registry, t, cfg)
  /\ UNCHANGED <<apiVars, agent_registry, timingVars, agents, pc, caller, stage, wrapper_input,
                 result, wrapperVars, orchVars>>

(* ---------------------------------------------------------------------- *)
(* Time budget of a run (ProductListingOrchestrator.__init__)              *)
(* ---------------------------------------------------------------------- *)
\* SystemConfig.default_timeout when the caller gives none
default_timeout == 300

\* lines 73-108: the configurations _initialize_agents starts from
DefaultAgentConfigs ==
  [k \in Stages |->
     CASE k = 1 -> [enabled |-> TRUE, max_retries |-> 3, timeout |-> 300]
       [] k = 2 -> [enabled |-> TRUE, max_retries |-> 2, timeout |-> 180]
       [] OTHER -> [enabled |-> TRUE, max_retries |-> 2, timeout |-> 120]]

\* SystemConfig(): no custom agent configuration
DefaultSystemConfig ==
  [default_timeout |-> default_timeout, agent_configs |-> [k \in {} |-> 0]]

\* custom AgentConfig entries of a SystemConfig
CustomAgentConfigs ==
  { [enabled |-> TRUE, max_retries |-> 0, timeout |-> 30],
    [enabled |-> TRUE, max_retries |-> 5, timeout |-> 60] }

\* the SystemConfig values an orchestrator is constructed with
SystemConfigs ==
  UNION { [default_timeout : {default_timeout, 900, 3000},
           agent_configs : [S -> CustomAgentConfigs]] : S \in SUBSET Stages }

\* lines 110-113: a custom configuration replaces the default of its type
Override(defaults, custom) ==
  [k \in DOMAIN defaults |-> IF k \in DOMAIN custom THEN custom[k] ELSE defaults[k]]

\* line 64: self.pipeline_timeout = config.default_timeout * 3
TotalPipelineTimeout(cfg) == cfg.default_timeout * 3

\* the sleeps between n + 1 attempts: WaitTime(1) + ... + WaitTime(n)
RECURSIVE BackoffTotal(_)
BackoffTotal(n) == IF n = 0 THEN 0 ELSE WaitTime(n) + BackoffTotal(n - 1)

\* the longest BaseAgent.execute can take: max_retries + 1 attempts that each
\* run into the attempt timeout, and a backoff sleep after each but the last
WorstCaseDuration(cfg) == (cfg.max_retries + 1) * cfg.timeout + BackoffTotal(cfg.max_retries)

\* value of full_budget before the run starts
NoElapsed == [stage |-> 1, elapsed |-> 0, cut |-> FALSE]

\* lines 115-123: self.agents after the loop of _initialize_agents; an agent
\* whose create_agent raised is logged and left out
InitializeAgents(registry, cfgs) ==
  LET built == {k \in DOMAIN cfgs :
                  CreateAgentOutcome(registry, k, cfgs[k]).raised = "None"}
  IN [k \in built |->
        [enabled |-> CreateAgentOutcome(registry, k, cfgs[k]).agent.config.enabled,
         max_retries |-> CreateAgentOutcome(registry, k, cfgs[k]).agent.config.max_retries]]

\* ProductListingOrchestrator.__init__(config)
ConstructOrchestrator ==
  /\ pipeline_timeout = 0
  /\ agent_configs' = Override(DefaultAgentConfigs, system_config.agent_configs)
  /\ agents' = InitializeAgents(agent_registry, agent_configs')
  /\ pipeline_timeout' = TotalPipelineTimeout(system_config)
  /\ UNCHANGED <<apiVars, system_config, full_budget, factoryVars, pc, caller, stage,
                 wrapper_input, result, wrapperVars, orchVars>>

\* description_agent.py 406-407, ecommerce_agent.py 441-442: the module of an
\* agent class is imported and its last statement registers the class for
\* its stage; no other module of the package calls register_agent
ImportAgentModule ==
  /\ pipeline_timeout = 0
  /\ \E cls \in AgentClasses :
       /\ ClassStage(cls) \notin DOMAIN agent_registry
       /\ agent_registry' = [u \in (DOMAIN agent_registry) \cup {ClassStage(cls)} |->
                               IF u = ClassStage(cls) THEN cls ELSE agent_registry[u]]
  /\ UNCHANGED <<apiVars, created, timingVars, agents, pc, caller, stage, wrapper_input,
                 result, wrapperVars, orchVars>>

\* lines 152-155: one stage of a run in which every attempt of every stage
\* runs into its timeout, under asyncio.wait_for(..., self.pipeline_timeout)
FullBudgetStage ==
  /\ pipeline_timeout # 0
  /\ full_budget.stage \in Stages
  /\ ~full_budget.cut
  /\ LET k == full_budget.stage
         e == full_budget.elapsed + WorstCaseDuration(agent_configs[k])
     IN full_budget' = IF e > pipeline_timeout
                       THEN [stage |-> k, elapsed |-> pipeline_timeout, cut |-> TRUE]
                       ELSE [stage |-> k + 1, elapsed |-> e, cut |-> FALSE]
  /\ UNCHANGED <<apiVars, system_config, pipeline_timeout, agent_configs, factoryVars, agents,
                 pc, caller, stage, wrapper_input, result, wrapperVars, orchVars>>

(* ---------------------------------------------------------------------- *)
(* Specification of one direct wrapper invocation                          *)
(* ---------------------------------------------------------------------- *)
\* AgentConfig values accepted by _validate_config, max_retries <= n; the
\* wrapper never reads max_retries of a disabled agent, which is left at 0
Configs(n) ==
  [enabled : {TRUE}, max_retries : 0..n] \cup [enabled : {FALSE}, max_retries : {0}]

\* value of response while the API has not returned for the run
NoResponse ==
  [success |-> FALSE, stages_completed |-> 0, total_stages |-> 0, errors |-> <<>>,
   typed |-> {}, returned |-> FALSE]

\* Submitted: the runs that callers are going to start
InitRun(Submitted) ==
  /\ pc = [r \in Runs |-> IF r \in Submitted THEN "idle" ELSE "unused"]
  /\ caller = [r \in Runs |-> "none"]
  /\ stage = [r \in Runs |-> 1]
  /\ wrapper_input = [r \in Runs |-> EmptyDict]
  /\ retry_count = [r \in Runs |-> 0]
  /\ last_exception = [r \in Runs |-> "None"]
  /\ result = [r \in Runs |-> NoResult]
  /\ attempts = [r \in Runs |-> 0]
  /\ sleeps = [r \in Runs |-> <<>>]
  /\ errors = [r \in Runs |-> <<>>]
  /\ calls = [r \in Runs |-> NoCalls]
  /\ input_data = [r \in Runs |-> EmptyDict]
  /\ stage_inputs = [r \in Runs |-> <<>>]
  /\ stage_results = [r \in Runs |-> <<>>]
  /\ final_status = [r \in Runs |-> "pending"]
  /\ error_summary = [r \in Runs |-> <<>>]
  /\ typed = [r \in Runs |-> {}]
  /\ completed_at = [r \in Runs |-> FALSE]
  /\ active_pipelines = {}
  /\ shutdown_pc = "idle"
  /\ waited = 0
  /\ response = [r \in Runs |-> NoResponse]

\* the factory is not exercised: the registry as the class body leaves it
FactoryIdle ==
  /\ agent_registry = EmptyRegistry
  /\ created = NoCreate

\* durations are not followed: no time budget has been computed
TimingIdle ==
  /\ system_config = DefaultSystemConfig
  /\ pipeline_timeout = 0
  /\ agent_configs = DefaultAgentConfigs
  /\ full_budget = NoElapsed

\* the agent a caller invokes directly is an instance of one of the agent
\* classes
WrapperInit ==
  /\ \E cls \in AgentClasses : agents \in [{ClassStage(cls)} -> Configs(MaxWrapperRetries)]
  /\ InitRun({1})
  /\ FactoryIdle
  /\ TimingIdle

WrapperNext ==
  \E r \in Runs : DirectInvoke(r) \/ Attempt(r) \/ CoreDone(r) \/ SleepDone(r)

WrapperSpec == WrapperInit /\ [][WrapperNext]_vars

(* ---------------------------------------------------------------------- *)
(* Specification of an orchestrator                                        *)
(* ---------------------------------------------------------------------- *)
\* self.agents after _initialize_agents: a stage whose agent could not be
\* constructed has no entry
Init ==
  /\ \E S \in SUBSET Stages : agents \in [S -> Configs(MaxRetries)]
  /\ InitRun({1})
  /\ FactoryIdle
  /\ TimingIdle

Next ==
  \/ \E r \in Runs : ExecutePipeline(r)
  \/ \E r \in Runs : ExecuteStage(r)
  \/ \E r \in Runs : Attempt(r)
  \/ \E r \in Runs : CoreDone(r)
  \/ \E r \in Runs : SleepDone(r)
  \/ \E r \in Runs : StageDone(r)
  \/ \E r \in Runs : Finalize(r)
  \/ \E r \in Runs : PipelineTimeout(r)

Spec == Init /\ [][Next]_vars

(* ---------------------------------------------------------------------- *)
(* Specification of an orchestrator that serves two callers and is shut    *)
(* down                                                                    *)
(* ---------------------------------------------------------------------- *)
\* self.agents of the orchestrator in service: no agent class registers for
\* stage 2; the agents of stages 1 and 3 are constructed or absent
ServiceAgents ==
  UNION { [S -> Configs(1)] : S \in SUBSET {1, 3} }

ServiceInit ==
  /\ agents \in ServiceAgents
  /\ InitRun({1})
  /\ FactoryIdle
  /\ TimingIdle

ServiceNext ==
  \/ Next
  \/ Shutdown
  \/ ShutdownPoll

ServiceSpec == ServiceInit /\ [][ServiceNext]_vars

\* the event loop resumes shutdown() when its one-second sleep is over
ServiceFairSpec == ServiceSpec /\ WF_vars(ShutdownPoll)

(* ---------------------------------------------------------------------- *)
(* Specification of an orchestrator that serves two callers at a time      *)
(* ---------------------------------------------------------------------- *)
\* self.agents: the last stage has an agent that retries once
ConcurrentAgents == { [k \in {3} |-> [enabled |-> TRUE, max_retries |-> 1]] }

ConcurrentInit ==
  /\ agents \in ConcurrentAgents
  /\ InitRun(Runs)
  /\ FactoryIdle
  /\ TimingIdle

ConcurrentSpec == ConcurrentInit /\ [][Next]_vars

(* ---------------------------------------------------------------------- *)
(* Specification of the agent factory                                      *)
(* ---------------------------------------------------------------------- *)
FactoryInit ==
  /\ agent_registry = EmptyRegistry
  /\ created = NoCreate
  /\ agents = [k \in {} |-> 0]
  /\ InitRun({})
  /\ TimingIdle

FactoryNext == RegisterAgent \/ CreateAgent

FactorySpec == FactoryInit /\ [][FactoryNext]_vars

(* ---------------------------------------------------------------------- *)
(* Specification of the time budget                                        *)
(* ---------------------------------------------------------------------- *)
TimingInit ==
  /\ system_config \in SystemConfigs
  /\ pipeline_timeout = 0
  /\ agent_configs = DefaultAgentConfigs
  /\ full_budget = NoElapsed
  /\ agents = [k \in {} |-> 0]
  /\ InitRun({})
  /\ FactoryIdle

TimingNext == ConstructOrchestrator \/ FullBudgetStage

TimingSpec == TimingInit /\ [][TimingNext]_vars

(* ---------------------------------------------------------------------- *)
(* Specification of the start of the process: the agent modules are        *)
(* imported, an orchestrator is constructed and serves one run             *)
(* ---------------------------------------------------------------------- *)
\* custom AgentConfig entries, valid or holding a value _validate_config
\* rejects
StartupAgentConfigs ==
  { [enabled |-> TRUE, max_retries |-> 1, timeout |-> 30],
    [enabled |-> TRUE, max_retries |-> -1, timeout |-> 30],
    [enabled |-> TRUE, max_retries |-> 1, timeout |-> 29] }

\* the SystemConfig values the orchestrator is constructed with: the default
\* one, or one that configures every stage
StartupSystemConfigs ==
  {DefaultSystemConfig} \cup
  [default_timeout : {default_timeout}, agent_configs : [Stages -> StartupAgentConfigs]]

StartupInit ==
  /\ system_config \in StartupSystemConfigs
  /\ pipeline_timeout = 0
  /\ agent_configs = DefaultAgentConfigs
  /\ full_budget = NoElapsed
  /\ agents = [k \in {} |-> 0]
  /\ InitRun({1})
  /\ FactoryIdle

\* execute_pipeline is a method of the constructed orchestrator
StartupNext ==
  \/ ImportAgentModule
  \/ ConstructOrchestrator
  \/ pipeline_timeout # 0 /\ Next

StartupSpec == StartupInit /\ [][StartupNext]_vars

(* ---------------------------------------------------------------------- *)
(* Specification of the progress of runs and of direct invocations         *)
(* ---------------------------------------------------------------------- *)
LiveInit ==
  /\ agents \in ConcurrentAgents
  /\ InitRun(Runs)
  /\ FactoryIdle
  /\ TimingIdle

\* each caller starts a run or awaits the wrapper directly
LiveNext ==
  \/ Next
  \/ \E r \in Runs : DirectInvoke(r)

\* the steps the event loop takes for r once its caller has started it: a
\* ready task is resumed, a core operation ends or its wait_for timer fires,
\* a sleep ends, the timer of the pipeline deadline fires
RunStep(r) ==
  \/ ExecuteStage(r)
  \/ Attempt(r)
  \/ CoreDone(r)
  \/ SleepDone(r)
  \/ StageDone(r)
  \/ Finalize(r)
  \/ PipelineTimeout(r)

LiveSpec == LiveInit /\ [][LiveNext]_vars /\ \A r \in Runs : WF_vars(RunStep(r))

(* ---------------------------------------------------------------------- *)
(* Specification of a ProductListingAPI: the run of its orchestrator may    *)
(* be ended by an exception of the sequencing code, and the run returned   *)
(* is formatted into the response                                          *)
(* ---------------------------------------------------------------------- *)
ApiNext ==
  \/ Next
  \/ \E r \in Runs : UnexpectedError(r)
  \/ \E r \in Runs : ApiReturn(r)

ApiSpec == Init /\ [][ApiNext]_vars

(* ---------------------------------------------------------------------- *)
(* Properties of the execution wrapper (checked under WrapperSpec)         *)
(* ---------------------------------------------------------------------- *)
\* max_retries of the agent that invocation r runs
R(r) == agents[stage[r]].max_retries

\* invocation r is a wrapper invocation on an enabled agent
EnabledInvocation(r) ==
  caller[r] # "none" /\ stage[r] \in DOMAIN agents /\ agents[stage[r]].enabled

\* every attempt invocation r has made so far has failed
AllAttemptsFailed(r) == Len(errors[r]) = attempts[r]

\* C1: an invocation on an enabled agent all of whose attempts fail never
\* makes more than R+1 attempts, does not return before attempt R+1 has
\* failed, and then returns Failed with retry_count = R and an empty payload
C1_ExhaustedRetries ==
  \A r \in Runs :
    EnabledInvocation(r) =>
      /\ attempts[r] <= R(r) + 1
      /\ (pc[r] = "returned" /\ AllAttemptsFailed(r)) =>
           /\ attempts[r] = R(r) + 1
           /\ result[r].status = "failed"
           /\ result[r].retry_count = R(r)
           /\ result[r].data = EmptyDict

\* C1 witness: an agent with max_retries >= 2 whose core operation was
\* executed and failed in every attempt has returned
C1_Witness ==
  \E r \in Runs :
    /\ EnabledInvocation(r) /\ pc[r] = "returned" /\ R(r) >= 2
    /\ AllAttemptsFailed(r)
    /\ calls[r].execute_core = attempts[r]
    /\ result[r].status = "failed"

\* the delays of the claim: 2s, 4s, 8s, 16s, then 30s for ever
ExpectedBackoff(i) ==
  CASE i = 1 -> 2 [] i = 2 -> 4 [] i = 3 -> 8 [] i = 4 -> 16 [] OTHER -> 30

\* C2: the i-th backoff sleep of an invocation lasts min(2^i, 30) seconds, a
\* sleep follows each failed attempt but the last, and an invocation that
\* returns Failed has slept exactly R times
C2_Backoff ==
  \A r \in Runs :
    EnabledInvocation(r) =>
      /\ \A i \in 1..Len(sleeps[r]) : sleeps[r][i] = ExpectedBackoff(i)
      /\ (pc[r] = "returned" /\ result[r].status = "failed") =>
           /\ Len(sleeps[r]) = R(r)
           /\ Len(sleeps[r]) = Len(errors[r]) - 1
      /\ (pc[r] \in {"attempt", "core", "sleep"}) => Len(sleeps[r]) = Len(errors[r])

\* C2 witness: a Failed invocation that has slept into the 30 second cap
C2_Witness ==
  \E r \in Runs :
    /\ EnabledInvocation(r) /\ pc[r] = "returned" /\ result[r].status = "failed"
    /\ Len(sleeps[r]) >= 5
    /\ sleeps[r][5] = 30

\* C3: an invocation on a disabled agent returns Skipped with an empty
\* payload at once: no attempt, no validator call, no core operation, no
\* backoff sleep
C3_DisabledSkipped ==
  \A r \in Runs :
    (caller[r] # "none" /\ stage[r] \in DOMAIN agents /\ ~agents[stage[r]].enabled) =>
      /\ pc[r] = "returned"
      /\ result[r].status = "skipped"
      /\ result[r].data = EmptyDict
      /\ attempts[r] = 0
      /\ calls[r] = NoCalls
      /\ sleeps[r] = <<>>

\* C3 witness: a disabled agent has been invoked and has returned
C3_Witness ==
  \E r \in Runs :
    /\ caller[r] = "direct" /\ ~agents[stage[r]].enabled
    /\ pc[r] = "returned" /\ result[r].status = "skipped"

\* C8: no wrapper invocation raises, and an invocation on an enabled agent
\* returns only Completed or Failed
C8_ErrorsAbsorbed ==
  \A r \in Runs :
    /\ pc[r] # "raised"
    /\ (EnabledInvocation(r) /\ pc[r] = "returned") =>
         result[r].status \in {"completed", "failed"}

\* C8 witness: an invocation that met an exception outside the agent error
\* classes, a timeout and a validation failure has returned
C8_Witness ==
  \E r \in Runs :
    /\ EnabledInvocation(r) /\ pc[r] = "returned"
    /\ \E i, j, l \in 1..Len(errors[r]) :
         /\ errors[r][i].msg = MsgUnexpected
         /\ errors[r][j].msg = MsgTimeout
         /\ errors[r][l].msg = MsgInputValidation

\* C13: an invocation returns Completed exactly if its last attempt did not
\* fail; the result then carries a payload of the core operation, no error
\* message and retry_count = the number of failed attempts before it, and
\* the successful attempt, which called the two validators and the core
\* operation, is the last attempt of the invocation
C13_SuccessResult ==
  \A r \in Runs :
    (EnabledInvocation(r) /\ Observed(r) /\ pc[r] = "returned") =>
      /\ result[r].status = "completed" <=> Len(errors[r]) = attempts[r] - 1
      /\ result[r].status = "completed" =>
           /\ result[r].data \in OutputChoices(stage[r])
           /\ result[r].error_message = "None"
           /\ result[r].retry_count = Len(errors[r])
           /\ result[r].retry_count = attempts[r] - 1
           /\ calls[r].validate_input = attempts[r]
           /\ calls[r].execute_core >= 1
           /\ calls[r].validate_output >= 1

\* C13 witness: an invocation has returned Completed from its fourth attempt,
\* the third having run into the attempt timeout
C13_Witness ==
  \E r \in Runs :
    /\ EnabledInvocation(r) /\ Observed(r) /\ pc[r] = "returned"
    /\ result[r].status = "completed"
    /\ result[r].retry_count = 3
    /\ attempts[r] = 4
    /\ errors[r][3].msg = MsgTimeout

\* invocation r has begun attempts and none of them got past input validation
InputNeverValid(r) ==
  /\ EnabledInvocation(r) /\ Observed(r)
  /\ attempts[r] >= 1 /\ calls[r].execute_core = 0

\* C24: an invocation whose input fails validation in every attempt does
\* not raise and does not stop at the first failure: it sleeps and validates
\* again while attempts remain, and returns Failed with retry_count = R
\* after R+1 calls of validate_input and R backoff sleeps, the core
\* operation and output validation never having been called
C24_InputValidationRetried ==
  \A r \in Runs :
    InputNeverValid(r) =>
      /\ pc[r] \in {"sleep", "attempt", "returned"}
      /\ calls[r].validate_input = attempts[r]
      /\ calls[r].validate_output = 0
      /\ Len(errors[r]) = attempts[r]
      /\ pc[r] = "returned" <=> attempts[r] = R(r) + 1
      /\ pc[r] = "returned" =>
           /\ calls[r].validate_input = R(r) + 1
           /\ Len(sleeps[r]) = R(r)
           /\ result[r].status = "failed"
           /\ result[r].retry_count = R(r)
           /\ result[r].data = EmptyDict

\* C24 witness: an agent with max_retries = 3 has returned Failed after four
\* input validations that all returned False
C24_Witness ==
  \E r \in Runs :
    /\ InputNeverValid(r) /\ pc[r] = "returned" /\ R(r) = 3
    /\ calls[r].validate_input = 4
    /\ \A i \in 1..4 : errors[r][i].msg = MsgInputValidation
    /\ result[r].error_message = MsgInputValidation

\* every attempt of invocation r so far got as far as output validation,
\* and none of the outputs was accepted
OutputNeverValid(r) ==
  /\ EnabledInvocation(r) /\ Observed(r)
  /\ attempts[r] >= 1 /\ calls[r].validate_output = attempts[r]
  /\ ~(pc[r] = "returned" /\ result[r].status = "completed")

\* C25: an invocation whose output fails validation in every attempt does
\* not raise; each such failure uses up one attempt, and the next attempt
\* validates the input and runs the core operation again, so that the
\* wrapper returns Failed with retry_count = R after R+1 executions of the
\* core operation and R backoff sleeps
C25_OutputValidationRetried ==
  \A r \in Runs :
    OutputNeverValid(r) =>
      /\ pc[r] \in {"sleep", "attempt", "returned"}
      /\ Len(errors[r]) = attempts[r]
      /\ calls[r].validate_input = attempts[r]
      /\ calls[r].execute_core = attempts[r]
      /\ pc[r] = "returned" <=> attempts[r] = R(r) + 1
      /\ pc[r] = "returned" =>
           /\ calls[r].execute_core = R(r) + 1
           /\ Len(sleeps[r]) = R(r)
           /\ result[r].status = "failed"
           /\ result[r].retry_count = R(r)

\* C25 witness: an agent with max_retries = 2 has returned Failed after
\* three executions of the core operation whose outputs were all rejected
C25_Witness ==
  \E r \in Runs :
    /\ OutputNeverValid(r) /\ pc[r] = "returned" /\ R(r) = 2
    /\ calls[r].execute_core = 3
    /\ \A i \in 1..3 : errors[r][i].msg = MsgOutputValidation
    /\ result[r].error_message = MsgOutputValidation

\* C26: a Failed result carries the recorded error of the last attempt of
\* the invocation; and an attempt is recorded with the timeout error exactly
\* if its core operation ran into the attempt timeout, the errors recorded
\* for validation failures and execution errors being different from it
C26_LastError ==
  \A r \in Runs :
    (EnabledInvocation(r) /\ Observed(r)) =>
      /\ \A i \in 1..Len(errors[r]) :
           /\ errors[r][i].msg = MsgTimeout <=> errors[r][i].cls = "TimeoutError"
           /\ errors[r][i].cls = "Exception" <=> errors[r][i].msg = MsgUnexpected
           /\ errors[r][i].cls = "AgentException" <=>
                errors[r][i].msg \in {MsgInputValidation, MsgOutputValidation, MsgAgent}
      /\ (pc[r] = "returned" /\ result[r].status = "failed") =>
           /\ result[r].error_message = errors[r][Len(errors[r])].msg
           /\ last_exception[r] = errors[r][Len(errors[r])].msg

\* C26 witness: a Failed result reports the execution error of the final
\* attempt although the first attempt ran into the attempt timeout
C26_Witness ==
  \E r \in Runs :
    /\ EnabledInvocation(r) /\ Observed(r) /\ pc[r] = "returned"
    /\ result[r].status = "failed" /\ Len(errors[r]) = 3
    /\ errors[r][1].cls = "TimeoutError"
    /\ errors[r][3].cls = "AgentException" /\ errors[r][3].msg = MsgAgent
    /\ result[r].error_message = MsgAgent

(* ---------------------------------------------------------------------- *)
(* Properties of the orchestrator (checked under Spec)                     *)
(* ---------------------------------------------------------------------- *)
\* execute_pipeline of run r has left its finally block
Finalized(r) == pc[r] \in {"done", "raised"}

\* run r was finalized by the pipeline deadline
TimedOutRun(r) == Finalized(r) /\ error_summary[r] = <<MsgPipelineTimeout>>

\* stage 1 of run r has ended Failed or Skipped
Stage1NotCompleted(r) ==
  Len(stage_results[r]) >= 1 /\ stage_results[r][1].status \in {"failed", "skipped"}

\* C4 as stated: whenever stage 1 ended Failed or Skipped, the returned run
\* holds the results of stages 2 and 3, stage 2 got the original input, and
\* the run is Failed when stage 1 Failed
C4_Original ==
  \A r \in Runs :
    (pc[r] = "done" /\ Stage1NotCompleted(r)) =>
      /\ Len(stage_results[r]) = 3
      /\ stage_inputs[r][2] = input_data[r]
      /\ (stage_results[r][1].status = "failed" => final_status[r] = "failed")

\* C4 (amended): after a Failed or Skipped stage 1 the input of stage 2 is
\* exactly the original input, and unless the pipeline deadline fires first
\* the run ends with the results of stages 2 and 3 in its list and is Failed
\* when stage 1 Failed
C4_DegradedContinuation ==
  \A r \in Runs :
    Stage1NotCompleted(r) =>
      /\ Len(stage_inputs[r]) >= 2
      /\ stage_inputs[r][2] = input_data[r]
      /\ (Finalized(r) /\ ~TimedOutRun(r)) =>
           /\ Len(stage_results[r]) = 3
           /\ stage_results[r][2].stage = 2
           /\ stage_results[r][3].stage = 3
           /\ (stage_results[r][1].status = "failed" => final_status[r] = "failed")

\* C4 witness: a returned run whose stage 1 Failed and whose stages 2 and 3
\* Completed
C4_Witness ==
  \E r \in Runs :
    /\ pc[r] = "done" /\ Len(stage_results[r]) = 3
    /\ stage_results[r][1].status = "failed"
    /\ stage_results[r][2].status = "completed"
    /\ stage_results[r][3].status = "completed"
    /\ final_status[r] = "failed"

\* C5: a run finalized without pipeline timeout is Failed exactly if one of
\* its stage results is Failed, and is Completed otherwise
C5_FinalStatus ==
  \A r \in Runs :
    (Finalized(r) /\ ~TimedOutRun(r)) =>
      /\ final_status[r] \in {"failed", "completed"}
      /\ final_status[r] = "failed" <=>
           \E i \in 1..Len(stage_results[r]) : stage_results[r][i].status = "failed"

\* C5 witness: a returned run with a Skipped stage and no Failed stage
C5_Witness ==
  \E r \in Runs :
    /\ pc[r] = "done" /\ Len(stage_results[r]) = 3
    /\ \E i \in 1..3 : stage_results[r][i].status = "skipped"
    /\ \A i \in 1..3 : stage_results[r][i].status # "failed"
    /\ final_status[r] = "completed"

\* the step by which the pipeline deadline ends run r: the sequencing task
\* is cancelled at a suspension point and execute_pipeline leaves
DeadlineStep(r) == pc[r] \in {"core", "sleep"} /\ pc'[r] \in {"done", "raised"}

\* C6: the step by which the pipeline deadline ends a run sets the overall
\* status to Failed and the error list to the single pipeline-timeout entry,
\* and leaves the collected stage results in place
C6_TimeoutPrecedence ==
  [][\A r \in Runs :
       DeadlineStep(r) =>
         /\ final_status'[r] = "failed"
         /\ error_summary'[r] = <<MsgPipelineTimeout>>
         /\ stage_results'[r] = stage_results[r]]_vars

\* C6 witness: a run ended by the deadline whose two collected results are
\* both Completed
C6_Witness ==
  \E r \in Runs :
    /\ pc[r] = "done" /\ TimedOutRun(r)
    /\ Len(stage_results[r]) = 2
    /\ \A i \in 1..2 : stage_results[r][i].status = "completed"
    /\ final_status[r] = "failed"

\* C7: execute_pipeline never raises: no run ends with an exception leaving
\* execute_pipeline
C7_NeverRaises == \A r \in Runs : pc[r] # "raised"

\* C9: while stage k of a run is being invoked, attempted or slept for, the
\* results of exactly the stages 1..k-1 have been returned and appended, in
\* order, each with a terminal status
C9_Sequential ==
  \A r \in Runs :
    (caller[r] = "orchestrator" /\ pc[r] \in {"stage", "attempt", "core", "sleep", "returned"}) =>
      /\ Len(stage_results[r]) = stage[r] - 1
      /\ \A i \in 1..Len(stage_results[r]) :
           /\ stage_results[r][i].stage = i
           /\ stage_results[r][i].status \in {"completed", "failed", "skipped"}

\* C9 witness: stage 3 is in a retry attempt after stage 1 Failed with a
\* retry and stage 2 Completed
C9_Witness ==
  \E r \in Runs :
    /\ caller[r] = "orchestrator" /\ pc[r] = "core" /\ stage[r] = 3
    /\ retry_count[r] >= 1
    /\ stage_results[r][1].status = "failed" /\ stage_results[r][1].retry_count >= 1
    /\ stage_results[r][2].status = "completed"

\* the original input merged with the payloads of the Completed results
\* among the first n stage results
RECURSIVE MergedCompleted(_, _, _)
MergedCompleted(orig, results, n) ==
  IF n = 0 THEN orig
  ELSE LET before == MergedCompleted(orig, results, n - 1)
       IN IF results[n].status = "completed"
          THEN [key \in (DOMAIN before) \cup (DOMAIN results[n].data) |->
                  IF key \in DOMAIN results[n].data THEN results[n].data[key] ELSE before[key]]
          ELSE before

\* C10: the input handed to stage n is the original input merged with the
\* payloads of the Completed stages among 1..n-1
C10_StageInput ==
  \A r \in Runs :
    \A n \in 1..Len(stage_inputs[r]) :
      n - 1 <= Len(stage_results[r]) =>
        stage_inputs[r][n] = MergedCompleted(input_data[r], stage_results[r], n - 1)

\* C10 witness: stage 3 has received an input holding the original keys and
\* the keys of the Completed stages 1 and 2
C10_Witness ==
  \E r \in Runs :
    /\ Len(stage_inputs[r]) = 3
    /\ stage_results[r][1].status = "completed"
    /\ stage_results[r][2].status = "completed"
    /\ {"product_url", "detailed_description", "image_url"} \subseteq DOMAIN stage_inputs[r][3]

\* C11: the stage-result list of a run never holds more than three entries,
\* every entry carries the number of a pipeline stage, and the stage numbers
\* are strictly ascending along the list, so no stage has two entries
C11_AscendingStages ==
  \A r \in Runs :
    LET results == stage_results[r]
    IN /\ Len(results) <= Cardinality(Stages)
       /\ \A i \in 1..Len(results) : results[i].stage \in Stages
       /\ \A i, j \in 1..Len(results) : i < j => results[i].stage < results[j].stage

\* C11 witness: a returned run with three entries, one synthesized for an
\* absent agent, one returned Skipped or Failed by a wrapper and one Completed
C11_Witness ==
  \E r \in Runs :
    /\ pc[r] = "done" /\ Len(stage_results[r]) = 3
    /\ \E i, j, l \in 1..3 :
         /\ stage_results[r][i].error_message = MsgNotAvailable
         /\ stage_results[r][j].status = "failed"
         /\ stage_results[r][l].status = "completed"

\* C14 as stated: a stage result is Skipped exactly if the agent of its
\* stage was constructed with enabled = false
C14_Original ==
  \A r \in Runs :
    \A i \in 1..Len(stage_results[r]) :
      LET k == stage_results[r][i].stage
      IN stage_results[r][i].status = "skipped" <=>
           (k \in DOMAIN agents /\ ~agents[k].enabled)

\* C14 (amended): a stage result is Skipped exactly if the agent of its stage
\* was constructed with enabled = false or was not constructed at all; the
\* message of the result tells the two cases apart
C14_SkippedIffNoEnabledAgent ==
  \A r \in Runs :
    \A i \in 1..Len(stage_results[r]) :
      LET k == stage_results[r][i].stage
          rslt == stage_results[r][i]
      IN /\ rslt.status = "skipped" <=> (k \notin DOMAIN agents \/ ~agents[k].enabled)
         /\ k \notin DOMAIN agents => rslt.error_message = MsgNotAvailable
         /\ (k \in DOMAIN agents /\ ~agents[k].enabled) =>
              rslt.error_message = "Agent is disabled"

\* C14 witness: a returned run with a Skipped result of a disabled agent, a
\* Skipped result of an absent agent and a result of an enabled agent
C14_Witness ==
  \E r \in Runs :
    /\ pc[r] = "done" /\ Len(stage_results[r]) = 3
    /\ \E i, j, l \in 1..3 :
         /\ i \in DOMAIN agents /\ ~agents[i].enabled
         /\ stage_results[r][i].status = "skipped"
         /\ j \notin DOMAIN agents
         /\ stage_results[r][j].status = "skipped"
         /\ l \in DOMAIN agents /\ agents[l].enabled
         /\ stage_results[r][l].status \in {"completed", "failed"}

\* the index in results of the i-th Failed entry
NthFailed(results, i) ==
  CHOOSE k \in FailedStages(results) :
    Cardinality({j \in FailedStages(results) : j < k}) = i - 1

\* C21: the error list of a run that was finalized as Failed, not by the
\* pipeline deadline, has as many entries as the run has Failed stage
\* results, and its i-th entry is the error message of the i-th Failed
\* stage in stage order; Completed and Skipped stages contribute nothing
C21_ErrorList ==
  \A r \in Runs :
    (Finalized(r) /\ ~TimedOutRun(r) /\ final_status[r] = "failed") =>
      /\ Len(error_summary[r]) = Cardinality(FailedStages(stage_results[r]))
      /\ \A i \in 1..Len(error_summary[r]) :
           error_summary[r][i] =
             stage_results[r][NthFailed(stage_results[r], i)].error_message

\* C21 witness: a returned run whose stages 1 and 3 Failed with different
\* errors and whose stage 2 was Skipped with a message of its own
C21_Witness ==
  \E r \in Runs :
    /\ pc[r] = "done" /\ Len(stage_results[r]) = 3
    /\ stage_results[r][1].status = "failed"
    /\ stage_results[r][2].status = "skipped"
    /\ stage_results[r][3].status = "failed"
    /\ stage_results[r][1].error_message # stage_results[r][3].error_message
    /\ error_summary[r] =
         <<stage_results[r][1].error_message, stage_results[r][3].error_message>>

\* the step in which the attempt timeout of run r's current attempt fires
AttemptTimeoutStep(r) ==
  /\ pc[r] = "core"
  /\ retry_count'[r] = retry_count[r] + 1
  /\ last_exception'[r] = MsgTimeout

\* the pipeline deadline of run r has fired and its handler has run
DeadlineFired(r) == completed_at[r] /\ error_summary[r] = <<MsgPipelineTimeout>>

\* C22: an attempt timeout ends the attempt and nothing else: the run stays
\* in the table with its status and its stage results, a backoff sleep and
\* then a new attempt follow exactly if attempts remain, and otherwise the
\* wrapper returns Failed to the sequencer; once the pipeline deadline of a
\* run has fired, the run starts no attempt, no sleep and no stage and
\* appends no stage result
C22_DeadlineScopes ==
  [][\A r \in Runs :
       /\ AttemptTimeoutStep(r) =>
            /\ pc'[r] \in {"sleep", "returned"}
            /\ pc'[r] = "sleep" <=> attempts[r] < R(r) + 1
            /\ pc'[r] = "returned" => result'[r].status = "failed"
            /\ final_status'[r] = final_status[r]
            /\ stage_results'[r] = stage_results[r]
            /\ r \in active_pipelines' <=> r \in active_pipelines
       /\ (pc[r] = "sleep" /\ pc'[r] \notin {"sleep", "done", "raised"}) =>
            /\ pc'[r] = "attempt"
            /\ retry_count'[r] = retry_count[r]
       /\ DeadlineFired(r) =>
            /\ pc'[r] = pc[r]
            /\ stage'[r] = stage[r]
            /\ attempts'[r] = attempts[r]
            /\ sleeps'[r] = sleeps[r]
            /\ stage_results'[r] = stage_results[r]]_vars

\* C22 witness: the pipeline deadline has ended a run whose stage 2 was in
\* the attempt that followed an attempt timeout
C22_Witness ==
  \E r \in Runs :
    /\ pc[r] = "done" /\ DeadlineFired(r)
    /\ stage[r] = 2 /\ Len(stage_results[r]) = 1
    /\ last_exception[r] = MsgTimeout
    /\ attempts[r] = 2

\* the step in which the pipeline deadline of run r fires during a backoff
\* sleep of one of its stages
DeadlineInSleep(r) == pc[r] = "sleep" /\ ~DeadlineFired(r) /\ DeadlineFired(r)'

\* C23: the pipeline deadline of a run can fire whenever the run is in a
\* backoff sleep; when it does, the sleep ends there and the same step
\* finalizes the run as Failed with the pipeline-timeout entry, with no
\* attempt and no sleep begun after it
C23_SleepInterrupted ==
  /\ [](\A r \in Runs :
         (pc[r] = "sleep" /\ caller[r] = "orchestrator") => ENABLED PipelineTimeout(r))
  /\ [][\A r \in Runs :
          DeadlineInSleep(r) =>
            /\ pc'[r] \in {"done", "raised"}
            /\ final_status'[r] = "failed"
            /\ error_summary'[r] = <<MsgPipelineTimeout>>
            /\ attempts'[r] = attempts[r]
            /\ sleeps'[r] = sleeps[r]
            /\ stage_results'[r] = stage_results[r]]_vars

\* C23 witness: a run was finalized by the deadline during the backoff sleep
\* after the failed first attempt of stage 3
C23_Witness ==
  \E r \in Runs :
    /\ pc[r] = "done" /\ DeadlineFired(r) /\ final_status[r] = "failed"
    /\ stage[r] = 3 /\ Len(stage_results[r]) = 2
    /\ Len(sleeps[r]) = 1 /\ attempts[r] = 1

\* the constructor of the typed sub-result of stage k was called and raised
ParseFailed(r, k) ==
  /\ k \in 1..Len(stage_results[r])
  /\ stage_results[r][k].status = "completed"
  /\ TypedGuard(k, stage_results[r][k].data)
  /\ k \notin typed[r]

\* C29: a typed sub-result is set only for a stage whose result is in the
\* list with status Completed; when the constructor of the typed sub-result
\* of a Completed stage raised, the stage's entry is Completed as the wrapper
\* returned it, the typed field is unset, the input of every later stage
\* holds the keys of the stage's output (the next stage's with the stage's
\* values), and a run that is not cut by the deadline is Failed exactly if
\* some stage Failed, its error list being the messages of the Failed stages
C29_TypedOnlyCompleted ==
  \A r \in Runs :
    LET results == stage_results[r]
    IN /\ \A k \in typed[r] :
            /\ k \in 1..Len(results)
            /\ results[k].status = "completed"
       /\ \A k \in Stages : ParseFailed(r, k) =>
            /\ \A j \in (k + 1)..Len(stage_inputs[r]) :
                 DOMAIN results[k].data \subseteq DOMAIN stage_inputs[r][j]
            /\ k + 1 <= Len(stage_inputs[r]) =>
                 \A key \in DOMAIN results[k].data :
                   stage_inputs[r][k + 1][key] = results[k].data[key]
            /\ (pc[r] = "done" /\ error_summary[r] # <<MsgPipelineTimeout>>) =>
                 /\ final_status[r] = "failed" <=> FailedStages(results) # {}
                 /\ final_status[r] = "completed" <=> FailedStages(results) = {}
                 /\ error_summary[r] = ErrorMessages(results, 1)

\* C29 witness: a run returned Completed with an empty error list although
\* the typed sub-result of its Completed first stage could not be built; the
\* third stage received the first stage's keys and has its typed sub-result
C29_Witness ==
  \E r \in Runs :
    /\ pc[r] = "done" /\ final_status[r] = "completed" /\ error_summary[r] = <<>>
    /\ ParseFailed(r, 1)
    /\ "detailed_description" \in DOMAIN stage_inputs[r][3]
    /\ 3 \in typed[r]

\* the step in which the orchestrator calls _execute_stage for run r
InvokeStep(r) == pc[r] = "stage" /\ pc'[r] # "stage"

\* C30: in a run the stage counter and the stage-result list only grow;
\* _execute_stage is called for a stage only while the list has no entry for
\* that stage, so each stage's wrapper is invoked at most once and a stage
\* that returned Failed is not invoked again; the attempt count starts
\* again only in such a call and, until the stage's result is appended,
\* never exceeds the stage's max_retries + 1
C30_InvokedOnce ==
  [][\A r \in Runs :
       /\ stage'[r] >= stage[r]
       /\ Len(stage_results'[r]) >= Len(stage_results[r])
       /\ InvokeStep(r) => Len(stage_results[r]) = stage[r] - 1
       /\ attempts'[r] < attempts[r] => InvokeStep(r)
       /\ (pc'[r] \in {"attempt", "core", "sleep", "returned"}
             /\ stage'[r] \in DOMAIN agents) =>
            attempts'[r] <= agents[stage'[r]].max_retries + 1]_vars

\* C30 witness: a returned run whose first stage Failed after max_retries + 1
\* attempts and whose list has one entry for each of the three stages, the
\* last one produced by a wrapper that made its own attempts
C30_Witness ==
  \E r \in Runs :
    /\ pc[r] = "done" /\ Len(stage_results[r]) = 3
    /\ 1 \in DOMAIN agents /\ agents[1].enabled /\ agents[1].max_retries = MaxRetries
    /\ stage_results[r][1].status = "failed"
    /\ stage_results[r][1].retry_count = MaxRetries
    /\ 3 \in DOMAIN agents /\ agents[3].enabled
    /\ attempts[r] = agents[3].max_retries + 1

\* stage k of run r is in the list as Completed and its output holds key
Wrote(r, k, key) ==
  /\ k \in 1..Len(stage_results[r])
  /\ stage_results[r][k].status = "completed"
  /\ key \in DOMAIN stage_results[r][k].data

\* C33: every key of the input of stage 2 has the value stage 1 wrote if
\* stage 1 Completed with that key, else the value of the original input;
\* every key of the input of stage 3 has the value stage 2 wrote, else the
\* value stage 1 wrote, else the value of the original input
C33_LastWriterWins ==
  \A r \in Runs :
    /\ Len(stage_inputs[r]) >= 2 =>
         \A key \in DOMAIN stage_inputs[r][2] :
           stage_inputs[r][2][key] =
             IF Wrote(r, 1, key) THEN stage_results[r][1].data[key]
             ELSE input_data[r][key]
    /\ Len(stage_inputs[r]) >= 3 =>
         \A key \in DOMAIN stage_inputs[r][3] :
           stage_inputs[r][3][key] =
             IF Wrote(r, 2, key) THEN stage_results[r][2].data[key]
             ELSE IF Wrote(r, 1, key) THEN stage_results[r][1].data[key]
             ELSE input_data[r][key]

\* C33 witness: stage 1 wrote a key of the original input and a key that
\* stage 2 wrote again; the input of stage 3 holds stage 1's value for the
\* former and stage 2's value for the latter
C33_Witness ==
  \E r \in Runs :
    /\ Len(stage_inputs[r]) = 3
    /\ Wrote(r, 1, "product_title") /\ "product_title" \in DOMAIN input_data[r]
    /\ Wrote(r, 1, "title") /\ Wrote(r, 2, "title")
    /\ stage_results[r][1].data["title"] # stage_results[r][2].data["title"]
    /\ stage_inputs[r][3]["title"] = stage_results[r][2].data["title"]
    /\ stage_inputs[r][3]["product_title"] = stage_results[r][1].data["product_title"]
    /\ stage_inputs[r][3]["product_title"] # input_data[r]["product_title"]

(* ---------------------------------------------------------------------- *)
(* Properties of the orchestrator in service (checked under ServiceSpec    *)
(* and ConcurrentSpec)                                                     *)
(* ---------------------------------------------------------------------- *)
\* execute_pipeline of run r has started and has not left its finally block
InFlight(r) ==
  caller[r] = "orchestrator" /\ pc[r] \in {"stage", "attempt", "core", "sleep", "returned", "sequenced"}

\* C12: the id of a run is in the active-run table in exactly the states in
\* which the run is in flight (started and not yet finalized), and its entry
\* has status InProgress
C12_ActiveWhileInFlight ==
  \A r \in Runs :
    /\ r \in active_pipelines <=> InFlight(r)
    /\ r \in active_pipelines => final_status[r] = "in_progress"

\* what a step of shutdown() may do: the call returns at once (and leaves
\* the table empty) when no run is active and starts waiting otherwise; a
\* poll adds one second and goes on waiting exactly while a run is active
\* and fewer than max_wait seconds have elapsed; shutdown() returns only
\* with an empty table and never waits more than max_wait seconds
ShutdownStep ==
  /\ (shutdown_pc = "idle" /\ shutdown_pc' # "idle") =>
       /\ waited' = 0
       /\ shutdown_pc' = "done" <=> active_pipelines = {}
       /\ shutdown_pc' = "waiting" <=> active_pipelines # {}
  /\ (shutdown_pc = "waiting" /\ waited' # waited) =>
       /\ waited' = waited + 1
       /\ shutdown_pc' = "waiting" <=> (active_pipelines # {} /\ waited' < max_wait)
       /\ shutdown_pc' = "done" <=> ~(active_pipelines # {} /\ waited' < max_wait)
       /\ shutdown_pc' = "waiting" => active_pipelines' = active_pipelines
  /\ shutdown_pc' = "waiting" => waited' < max_wait
  /\ (shutdown_pc # "done" /\ shutdown_pc' = "done") => active_pipelines' = {}
  /\ waited' <= max_wait

\* C15: shutdown() returns at once when no run is active; otherwise it polls
\* once per second while a run is active and less than the grace period of
\* 60 seconds has elapsed, then drops the entries still present; the table
\* is empty when it returns, and a shutdown() that waits always returns
C15_ShutdownTerminates ==
  /\ [][ShutdownStep]_vars
  /\ (shutdown_pc = "waiting") ~> (shutdown_pc = "done")

\* C15 witness: shutdown() has returned after the whole grace period and has
\* dropped the entry of a run that is still in flight
C15_Witness ==
  /\ shutdown_pc = "done" /\ waited = max_wait
  /\ active_pipelines = {}
  /\ \E r \in Runs : InFlight(r)

\* C16: once shutdown() has returned, a call of execute_pipeline raises and
\* starts no run: the call adds no entry to the active-run table and no
\* stage is executed for it
C16_NoRunAfterShutdown ==
  [][\A r \in Runs :
       (shutdown_pc = "done" /\ pc[r] = "idle" /\ pc'[r] # "idle") =>
         /\ pc'[r] = "raised"
         /\ r \notin active_pipelines'
         /\ stage_results'[r] = <<>>]_vars

\* everything the program holds for run r alone: the locals of its
\* coroutines and the fields of its PipelineResult
RunState(r) ==
  <<pc[r], caller[r], stage[r], wrapper_input[r], retry_count[r], last_exception[r],
    result[r], attempts[r], sleeps[r], input_data[r], stage_inputs[r],
    stage_results[r], final_status[r], error_summary[r], typed[r], completed_at[r]>>

\* C18: a step of one run changes nothing that belongs to the other run and
\* leaves the other run's table entry as it is (its start inserts and its
\* finalization removes its own entry only); the runs in flight have one
\* table entry each; and the stage inputs, the overall status and the error
\* list of a run are functions of its own input and its own stage results
C18_RunsIndependent ==
  [][\A r \in Runs :
       /\ pc'[r] # pc[r] =>
            \A q \in Runs \ {r} :
              /\ RunState(q)' = RunState(q)
              /\ q \in active_pipelines' <=> q \in active_pipelines
       /\ (pc[r] = "idle" /\ pc'[r] # "idle") => active_pipelines' = active_pipelines \cup {r}
       /\ (pc[r] # "done" /\ pc'[r] = "done") => active_pipelines' = active_pipelines \ {r}
       /\ r \in active_pipelines' <=>
            pc'[r] \in {"stage", "attempt", "core", "sleep", "returned", "sequenced"}
       /\ \A n \in 1..Len(stage_inputs'[r]) :
            n - 1 <= Len(stage_results'[r]) =>
              stage_inputs'[r][n] = MergedCompleted(input_data'[r], stage_results'[r], n - 1)
       /\ (pc'[r] = "done" /\ error_summary'[r] # <<MsgPipelineTimeout>>) =>
            /\ final_status'[r] =
                 IF FailedStages(stage_results'[r]) # {} THEN "failed" ELSE "completed"
            /\ final_status'[r] = "failed" =>
                 error_summary'[r] = ErrorMessages(stage_results'[r], 1)]_vars

\* C18 witness: two runs with different inputs are in flight at once, one in
\* the retry of stage 3 and one in its backoff sleep, each with its entry
C18_Witness ==
  /\ active_pipelines = {1, 2}
  /\ input_data[1] # input_data[2]
  /\ pc[1] = "core" /\ retry_count[1] = 1 /\ stage[1] = 3
  /\ pc[2] = "sleep" /\ stage[2] = 3

\* C35: in the step in which a run executes its finally block (its
\* completion time is set), the id of the run is in the active-run table
\* before the step and out of it after, and the run is returned to its
\* caller, whatever shutdown() has done in the meantime
C35_IdPresentAtFinalization ==
  [][\A r \in Runs :
       (completed_at'[r] /\ ~completed_at[r]) =>
         /\ r \in active_pipelines
         /\ r \notin active_pipelines'
         /\ pc'[r] = "done"]_vars

(* ---------------------------------------------------------------------- *)
(* Properties of the agent factory (checked under FactorySpec)             *)
(* ---------------------------------------------------------------------- *)
\* C17: a create_agent call leaves the registry as it was; for a type that
\* is not registered it raises the configuration error "not registered"
\* whatever the config; for a registered type it runs the constructor of
\* the class registered for that type, which returns an agent of that class
\* holding the given config, or, for a config that its validation rejects,
\* raises the configuration error of the validation
C17_CreateAgent ==
  [][created' # created =>
       LET t == created'.agent_type
           cfg == created'.config
       IN /\ agent_registry' = agent_registry
          /\ t \notin DOMAIN agent_registry =>
               /\ created'.raised = "AgentConfigurationException"
               /\ created'.message = MsgNotRegistered
               /\ created'.agent = NoAgent
          /\ t \in DOMAIN agent_registry =>
               /\ created'.raised = "None" <=> ConfigError(cfg) = "None"
               /\ created'.raised = "None" =>
                    /\ created'.agent.class = agent_registry[t]
                    /\ created'.agent.config = cfg
               /\ created'.raised # "None" =>
                    /\ created'.message = ConfigError(cfg)
                    /\ created'.agent = NoAgent]_vars

\* C17 witness: with both agent classes registered, a create_agent call for
\* the type that was never registered has raised
C17_Witness ==
  /\ {agent_registry[t] : t \in DOMAIN agent_registry} = AgentClasses
  /\ created.agent_type \notin DOMAIN agent_registry
  /\ created.raised = "AgentConfigurationException"
  /\ created.message = MsgNotRegistered

(* ---------------------------------------------------------------------- *)
(* Properties of the time budget (checked under TimingSpec)                *)
(* ---------------------------------------------------------------------- *)
\* C19: an orchestrator constructed with the default configuration has a
\* pipeline deadline that is at least the sum of the worst-case durations
\* of its three stages, and the deadline does not cut off the run in which
\* every stage uses its whole timeout-and-retry budget
C19_DeadlineCoversBudget ==
  (pipeline_timeout # 0 /\ system_config = DefaultSystemConfig) =>
    /\ pipeline_timeout >= WorstCaseDuration(agent_configs[1])
                           + WorstCaseDuration(agent_configs[2])
                           + WorstCaseDuration(agent_configs[3])
    /\ ~full_budget.cut

(* ---------------------------------------------------------------------- *)
(* Properties of the start of the process (checked under StartupSpec)      *)
(* ---------------------------------------------------------------------- *)
\* create_agent cannot produce the agent of stage k: no class is registered
\* for it or _validate_config rejects its configuration
Unavailable(k) ==
  \/ k \notin DOMAIN agent_registry
  \/ ConfigError(agent_configs[k]) # "None"

\* the run was not cut by the pipeline deadline
Sequenced(r) ==
  \/ pc[r] = "sequenced"
  \/ pc[r] = "done" /\ error_summary[r] # <<MsgPipelineTimeout>>

\* C27: the construction of the orchestrator completes whatever the registry
\* and the agent configurations are, and leaves out exactly the agents whose
\* type is not registered or whose configuration is rejected; in a run, the
\* result of a stage without agent is Skipped, carries the number of the
\* stage and the message "not available", no attempt is made for it, and a
\* run that is not cut by the deadline has a result for all three stages,
\* those of the constructed enabled agents being produced by their wrappers
C27_AbsentAgentSkipped ==
  pipeline_timeout # 0 =>
    /\ DOMAIN agents = {k \in Stages : ~Unavailable(k)}
    /\ \A r \in Runs :
         /\ \A i \in 1..Len(stage_results[r]) :
              i \notin DOMAIN agents =>
                stage_results[r][i] = AgentResult(i, "skipped", EmptyDict, MsgNotAvailable, 0)
         /\ Sequenced(r) =>
              /\ Len(stage_results[r]) = Cardinality(Stages)
              /\ \A k \in DOMAIN agents :
                   agents[k].enabled => stage_results[r][k].status \in {"completed", "failed"}
              /\ (final_status[r] = "failed" =>
                    \E k \in DOMAIN agents : stage_results[r][k].status = "failed")

\* C27 witness: a finalized run of an orchestrator whose first agent was
\* registered but rejected for its configuration and whose second agent was
\* never registered: both stages are Skipped and the third stage completed
C27_Witness ==
  \E r \in Runs :
    /\ pc[r] = "done" /\ final_status[r] = "completed"
    /\ 1 \in DOMAIN agent_registry /\ ConfigError(agent_configs[1]) # "None"
    /\ 2 \notin DOMAIN agent_registry
    /\ stage_results[r][1].status = "skipped"
    /\ stage_results[r][2].status = "skipped"
    /\ stage_results[r][3].status = "completed"

\* every module of the package that registers an agent class has been imported
Initialized == \A cls \in AgentClasses : ClassStage(cls) \in DOMAIN agent_registry

\* C28: once the agent modules are imported the registry holds a class for
\* each of the three stages, an orchestrator constructed from the default
\* SystemConfig has an agent for each stage, and no stage result of its runs
\* is the Skipped result synthesized for an absent agent
C28_AllStagesRegistered ==
  Initialized =>
    /\ DOMAIN agent_registry = Stages
    /\ (pipeline_timeout # 0 /\ system_config = DefaultSystemConfig) =>
         /\ DOMAIN agents = Stages
         /\ \A r \in Runs : \A i \in 1..Len(stage_results[r]) :
              stage_results[r][i].error_message # MsgNotAvailable

(* ---------------------------------------------------------------------- *)
(* Properties of the API and of the generic handler (checked under ApiSpec)*)
(* ---------------------------------------------------------------------- *)
\* the generic handler of execute_pipeline ended run r
UnexpectedRun(r) ==
  \E i \in 1..Len(error_summary[r]) : error_summary[r][i] = MsgSequencing

\* C31: a run ended by an exception of the sequencing code is Failed, its
\* error list is the single entry of the generic handler whatever the stages
\* recorded, its completion time is set, it is out of the active-run table
\* and it was returned to the caller, not raised
C31_UnexpectedAbsorbed ==
  \A r \in Runs :
    UnexpectedRun(r) =>
      /\ final_status[r] = "failed"
      /\ error_summary[r] = <<MsgSequencing>>
      /\ completed_at[r]
      /\ r \notin active_pipelines
      /\ pc[r] \in {"done", "responded"}

\* C31 witness: a run returned after the generic handler ended it while a
\* Failed stage result with its own message was in the list
C31_Witness ==
  \E r \in Runs :
    /\ pc[r] = "done" /\ UnexpectedRun(r)
    /\ Len(stage_results[r]) = 2
    /\ stage_results[r][1].status = "failed"
    /\ stage_results[r][1].error_message = MsgTimeout

\* execute_pipeline returned run r to its caller
Returned(r) == pc[r] \in {"done", "responded"}

\* C32: the status of a run changes only from Pending to InProgress when the
\* run is created and from InProgress to Completed or Failed; a run that
\* execute_pipeline returned, on whichever path, is Completed or Failed and
\* has its elapsed time and completion timestamp set (the finally block sets
\* both together)
C32_StatusTransitions ==
  /\ [](\A r \in Runs :
          Returned(r) => final_status[r] \in {"completed", "failed"} /\ completed_at[r])
  /\ [][\A r \in Runs :
          final_status'[r] # final_status[r] =>
            \/ final_status[r] = "pending" /\ final_status'[r] = "in_progress"
            \/ final_status[r] = "in_progress" /\ final_status'[r] \in {"completed", "failed"}]_vars

\* C32 witness: a run returned on the timeout path, Failed although the
\* stage results collected so far are Completed
C32_Witness ==
  \E r \in Runs :
    /\ Returned(r) /\ error_summary[r] = <<MsgPipelineTimeout>>
    /\ final_status[r] = "failed" /\ completed_at[r]
    /\ Len(stage_results[r]) = 2
    /\ \A i \in 1..2 : stage_results[r][i].status = "completed"

\* C37: a run that the pipeline deadline ended while stage k was in flight
\* holds the results of the stages 1..k-1, in order, and nothing for stage k
\* or a later stage; a returned run that neither the deadline nor the
\* generic handler ended holds three entries, for the stages 1, 2 and 3
C37_ResultsAtDeadline ==
  \A r \in Runs :
    /\ (Returned(r) /\ error_summary[r] = <<MsgPipelineTimeout>>) =>
         /\ Len(stage_results[r]) = stage[r] - 1
         /\ \A i \in 1..Len(stage_results[r]) :
              /\ stage_results[r][i].stage = i
              /\ stage_results[r][i].status \in {"completed", "failed", "skipped"}
    /\ (Returned(r) /\ error_summary[r] # <<MsgPipelineTimeout>> /\ ~UnexpectedRun(r)) =>
         /\ Len(stage_results[r]) = 3
         /\ \A i \in 1..3 : stage_results[r][i].stage = i

\* C37 witness: the deadline ended a run during the second attempt of its
\* stage 2, after stage 1 was Skipped: the list holds the one entry of
\* stage 1
C37_Witness ==
  \E r \in Runs :
    /\ Returned(r) /\ error_summary[r] = <<MsgPipelineTimeout>>
    /\ stage[r] = 2 /\ attempts[r] = 2
    /\ Len(stage_results[r]) = 1
    /\ stage_results[r][1].status = "skipped"

\* the Completed entries of a stage-result list
CompletedResults(results) ==
  SelectSeq(results, LAMBDA rslt : rslt.status = "completed")

\* C34: in the response the API returned for a run, success is true exactly
\* if the run is Completed, errors is the run's error list, stages_completed
\* is the number of Completed stage results and is at most total_stages,
\* which is the length of the stage-result list, and the typed sub-results
\* in the response are those set on the run
C34_ApiResponse ==
  \A r \in Runs :
    response[r].returned =>
      /\ response[r].success <=> final_status[r] = "completed"
      /\ response[r].errors = error_summary[r]
      /\ response[r].stages_completed = Len(CompletedResults(stage_results[r]))
      /\ response[r].stages_completed <= response[r].total_stages
      /\ response[r].total_stages = Len(stage_results[r])
      /\ response[r].typed = typed[r]
      /\ \A k \in response[r].typed : stage_results[r][k].status = "completed"

\* C34 witness: the response of a Failed run with two Completed stages out
\* of three, one of them with its typed sub-result, and one error
C34_Witness ==
  \E r \in Runs :
    /\ response[r].returned /\ ~response[r].success
    /\ response[r].stages_completed = 2 /\ response[r].total_stages = 3
    /\ Len(response[r].errors) = 1
    /\ response[r].typed = {3}

\* every stage of run r has a result and none of them is Failed
NoStageFailed(r) ==
  /\ Len(stage_results[r]) = 3
  /\ FailedStages(stage_results[r]) = {}
  /\ ~UnexpectedRun(r)

\* C38: a returned run whose three stage results hold no Failed one is
\* Completed with an empty error list, whether or not a stage Completed; if
\* the three results are Skipped, the response of the API has success =
\* true, stages_completed = 0 and no error
C38_AllSkippedCompleted ==
  \A r \in Runs :
    /\ (Returned(r) /\ NoStageFailed(r)) =>
         final_status[r] = "completed" /\ error_summary[r] = <<>>
    /\ (response[r].returned /\ NoStageFailed(r)
          /\ \A i \in 1..3 : stage_results[r][i].status = "skipped") =>
         /\ response[r].success
         /\ response[r].stages_completed = 0
         /\ response[r].total_stages = 3
         /\ response[r].errors = <<>>
         /\ response[r].typed = {}

\* C38 witness: the response of a run whose stages were all Skipped, one for
\* a disabled agent and one for an absent agent
C38_Witness ==
  \E r \in Runs :
    /\ response[r].returned /\ response[r].success
    /\ response[r].stages_completed = 0
    /\ Len(stage_results[r]) = 3
    /\ \A i \in 1..3 : stage_results[r][i].status = "skipped"
    /\ \E i, j \in 1..3 :
         /\ i \in DOMAIN agents /\ ~agents[i].enabled
         /\ j \notin DOMAIN agents

(* ---------------------------------------------------------------------- *)
(* Progress (checked under LiveSpec)                                       *)
(* ---------------------------------------------------------------------- *)
\* C36: every run that execute_pipeline has started is eventually returned
\* Completed or Failed and out of the active-run table, and every direct
\* invocation of a wrapper eventually returns a result with status
\* Completed, Failed or Skipped
C36_Terminates ==
  \A r \in Runs :
    /\ (caller[r] = "orchestrator") ~>
         (/\ pc[r] = "done"
          /\ final_status[r] \in {"completed", "failed"}
          /\ r \notin active_pipelines)
    /\ (caller[r] = "direct") ~>
         (/\ pc[r] = "returned"
          /\ result[r].status \in {"completed", "failed", "skipped"})

\* C36 witness: one run was ended by the pipeline deadline while its stage
\* was in a second attempt, and a direct invocation has returned Failed
\* after max_retries + 1 attempts that ran into the attempt timeout
C36_Witness ==
  \E r, q \in Runs :
    /\ caller[r] = "orchestrator" /\ pc[r] = "done"
    /\ error_summary[r] = <<MsgPipelineTimeout>> /\ attempts[r] = 2
    /\ caller[q] = "direct" /\ pc[q] = "returned"
    /\ result[q].status = "failed" /\ result[q].error_message = MsgTimeout
    /\ attempts[q] = agents[stage[q]].max_retries + 1

====
